---- MODULE Spec2Model ----
(***************************************************************************)
(* Model of src/cli/commands/add.js (class Add extends Install): the       *)
(* version string chosen for an added package (getPatternVersion), the     *)
(* rewriting of the user's patterns (preparePatterns), the merge into the  *)
(* root manifests (savePackages) and the bailout gate (bailout).           *)
(*                                                                         *)
(* JavaScript strings are sequences of one-character strings, so that      *)
(* split, indexOf, concatenation and String() are computed, not assumed.   *)
(* The other JavaScript values are one-element tuples that are no string:  *)
(* Undefined, JSTrue, JSFalse.                                             *)
(***************************************************************************)
EXTENDS Integers, Sequences, FiniteSets, TLC

VARIABLES
    flags,                \* this.flags: dev, optional, peer, tilde, exact
    config,               \* this.config options: "save-prefix", "save-exact"
    \* ---- getPatternVersion applied to one input
    gpvPattern, gpvPkg, gpvOut, gpvCanon, gpvOut2, gpvPc,
    \* ---- one add invocation: preparePatterns, then savePackages
    args,                 \* this.args
    patterns,             \* the resolver's pattern -> package index
    flagToOrigin,         \* this.flagToOrigin
    addedPatterns,        \* this.addedPatterns
    preparedPatterns,     \* what preparePatterns returns
    replaceLog,           \* the calls replacePattern(old, new), in order
    userPkg,              \* per added pattern: the package its user pattern resolved to
    rootPatternsToOrigin, \* this.rootPatternsToOrigin, keys in insertion order
    manifests,            \* the in-memory root manifests, by registry
    disk,                 \* the manifest files on disk, by registry
    idx,                  \* position of the loop of savePackages in addedPatterns
    warnings,             \* reporter.warn calls: <<name, depType, flagToOrigin>>
    saveCalls,            \* number of calls of config.saveRootManifests
    run,                  \* which run of the merge loop this is
    firstRun,             \* the manifests as the first run of the merge loop left them
    pc,
    \* ---- bailout
    lockfileCache, integrityFileMissing, integrityMatches, haveLockfile,
    hasWorkspaceLayout, scriptsForce, checkCalls, setForceCalls, bailoutResult, bpc

gpvVars == <<gpvPattern, gpvPkg, gpvOut, gpvCanon, gpvOut2, gpvPc>>
addVars == <<args, patterns, flagToOrigin, addedPatterns, preparedPatterns, replaceLog,
             userPkg, rootPatternsToOrigin, manifests, disk, idx, warnings, saveCalls,
             run, firstRun, pc>>
bailVars == <<lockfileCache, integrityFileMissing, integrityMatches, haveLockfile,
              hasWorkspaceLayout, scriptsForce, checkCalls, setForceCalls,
              bailoutResult, bpc>>
vars == <<flags, config, gpvVars, addVars, bailVars>>

----------------------------------------------------------------------------
(* JavaScript values and strings *)

Undefined == <<"undefined">>
JSTrue == <<"true">>
JSFalse == <<"false">>
Empty == <<>>

\* String(v)
String(v) ==
    IF v = Undefined THEN <<"u", "n", "d", "e", "f", "i", "n", "e", "d">>
    ELSE IF v = JSTrue THEN <<"t", "r", "u", "e">>
    ELSE IF v = JSFalse THEN <<"f", "a", "l", "s", "e">>
    ELSE v

\* Boolean(v): undefined, false and the empty string are falsy
Boolean(v) == v \notin {Undefined, JSFalse, Empty}

\* s.indexOf(t) === 0
StartsWith(s, t) == Len(s) >= Len(t) /\ SubSeq(s, 1, Len(t)) = t

At == <<"@">>

\* position of the first "@" of s, 0 when there is none
FirstAt(s) ==
    IF \E k \in 1..Len(s) : s[k] = "@"
    THEN CHOOSE k \in 1..Len(s) : s[k] = "@" /\ \A j \in 1..(k - 1) : s[j] # "@"
    ELSE 0

----------------------------------------------------------------------------
(* The strings of the model *)

NameA == <<"a">>
NameB == <<"b">>
NameScoped == <<"@", "s", "/", "a">>
V100 == <<"1", ".", "0", ".", "0">>
V105 == <<"1", ".", "0", ".", "5">>
V120 == <<"1", ".", "2", ".", "0">>
V200 == <<"2", ".", "0", ".", "0">>
Caret == <<"^">>
Tilde == <<"~">>
Greater == <<">">>
Latest == <<"l", "a", "t", "e", "s", "t">>
FileX == <<"f", "i", "l", "e", ":", "x">>

----------------------------------------------------------------------------
(* Collaborators of getPatternVersion *)

\* normalizePattern(pattern): {name, range, hasVersion}. A leading "@" is the
\* scope of the name; the name ends at the next "@" and the rest is the range.
normalizePattern(pattern) ==
    LET isScoped == Len(pattern) > 0 /\ pattern[1] = "@"
        body == IF isScoped THEN Tail(pattern) ELSE pattern
        k == FirstAt(body)
        rest == IF k = 0 THEN Empty ELSE SubSeq(body, k + 1, Len(body))
        bare == IF k = 0 THEN body ELSE SubSeq(body, 1, k - 1)
    IN  [name |-> IF isScoped THEN At \o bare ELSE bare,
         range |-> IF k = 0 THEN Latest ELSE IF rest # Empty THEN rest ELSE <<"*">>,
         hasVersion |-> k # 0 /\ rest # Empty]

\* getExoticResolver(pattern), as a boolean: the file: protocol stands for the
\* specifiers a specialised resolver claims.
FileProtocol == <<"f", "i", "l", "e", ":">>
getExoticResolver(pattern) == StartsWith(pattern, FileProtocol)

DigitChars == {"0", "1", "2", "3", "4", "5", "6", "7", "8", "9"}
DigitVal(c) == CHOOSE n \in 0..9 : <<"0", "1", "2", "3", "4", "5", "6", "7", "8", "9">>[n + 1] = c

\* a version of the model: digit "." digit "." digit
IsVersion(s) ==
    /\ Len(s) = Len(V100)
    /\ s[2] = "." /\ s[4] = "."
    /\ s[1] \in DigitChars /\ s[3] \in DigitChars /\ s[5] \in DigitChars

VersionOf(s) == <<DigitVal(s[1]), DigitVal(s[3]), DigitVal(s[5])>>

\* semantic-version precedence: -1, 0 or 1
Compare(v, w) ==
    IF v[1] # w[1] THEN (IF v[1] < w[1] THEN -1 ELSE 1)
    ELSE IF v[2] # w[2] THEN (IF v[2] < w[2] THEN -1 ELSE 1)
    ELSE IF v[3] # w[3] THEN (IF v[3] < w[3] THEN -1 ELSE 1)
    ELSE 0

\* the comparator operators of a range, longest first
RangeOps == <<<<">", "=">>, <<"<", "=">>, <<"^">>, <<"~">>, <<">">>, <<"<">>, <<"=">>, Empty>>

\* the upper bound (exclusive) of ^v and of ~v
CaretBound(v) ==
    IF v[1] > 0 THEN <<v[1] + 1, 0, 0>>
    ELSE IF v[2] > 0 THEN <<0, v[2] + 1, 0>>
    ELSE <<0, 0, v[3] + 1>>
TildeBound(v) == <<v[1], v[2] + 1, 0>>

SatisfiesOp(v, op, w) ==
    IF op = <<"^">> THEN Compare(v, w) >= 0 /\ Compare(v, CaretBound(w)) < 0
    ELSE IF op = <<"~">> THEN Compare(v, w) >= 0 /\ Compare(v, TildeBound(w)) < 0
    ELSE IF op = <<">", "=">> THEN Compare(v, w) >= 0
    ELSE IF op = <<"<", "=">> THEN Compare(v, w) <= 0
    ELSE IF op = <<">">> THEN Compare(v, w) > 0
    ELSE IF op = <<"<">> THEN Compare(v, w) < 0
    ELSE Compare(v, w) = 0

\* semver.satisfies(version, range): false for a range that is no range (a tag)
satisfies(version, range) ==
    IF ~IsVersion(version) THEN FALSE
    ELSE IF range = <<"*">> \/ range = Empty THEN TRUE
    ELSE \E k \in 1..Len(RangeOps) :
            /\ StartsWith(range, RangeOps[k])
            /\ \A j \in 1..(k - 1) : ~StartsWith(range, RangeOps[j])
            /\ LET w == SubSeq(range, Len(RangeOps[k]) + 1, Len(range))
               IN  IsVersion(w) /\ SatisfiesOp(VersionOf(version), RangeOps[k], VersionOf(w))

\* this.config.getOption(key)
getOption(key) == config[key]

----------------------------------------------------------------------------
(* Add.getPatternVersion *)

\* the prefix of the synthesized version, lines 75-82
getPrefix(tilde, exact, configPrefix) ==
    IF tilde THEN Tilde
    ELSE IF exact THEN Empty
    ELSE IF configPrefix # Empty THEN configPrefix ELSE Caret

\* getPatternVersion with the range tried before the exotic pattern
getPatternVersion_rangeFirst(pattern, pkg) ==
    LET configPrefix == String(getOption("save-prefix"))
        exact == flags.exact \/ Boolean(getOption("save-exact")) \/ configPrefix = Empty
        np == normalizePattern(pattern)
    IN  IF np.hasVersion /\ np.range # Empty
           /\ (satisfies(pkg.version, np.range) \/ getExoticResolver(np.range))
        THEN np.range
        ELSE IF getExoticResolver(pattern) THEN pattern
        ELSE getPrefix(flags.tilde, exact, configPrefix) \o pkg.version

\* getPatternVersion with --exact overriding a range the user gave
getPatternVersion_exactWins(pattern, pkg) ==
    LET configPrefix == String(getOption("save-prefix"))
        exact == flags.exact \/ Boolean(getOption("save-exact")) \/ configPrefix = Empty
        np == normalizePattern(pattern)
    IN  IF getExoticResolver(pattern) THEN pattern
        ELSE IF np.hasVersion /\ np.range # Empty /\ ~flags.exact
                /\ (satisfies(pkg.version, np.range) \/ getExoticResolver(np.range))
             THEN np.range
        ELSE getPrefix(flags.tilde, exact, configPrefix) \o pkg.version

\* getPatternVersion without the exotic test of the range
getPatternVersion_noExoticRange(pattern, pkg) ==
    LET configPrefix == String(getOption("save-prefix"))
        exact == flags.exact \/ Boolean(getOption("save-exact")) \/ configPrefix = Empty
        np == normalizePattern(pattern)
    IN  IF getExoticResolver(pattern) THEN pattern
        ELSE IF np.hasVersion /\ np.range # Empty /\ satisfies(pkg.version, np.range)
             THEN np.range
        ELSE getPrefix(flags.tilde, exact, configPrefix) \o pkg.version

getPatternVersion(pattern, pkg) ==
    LET tilde == flags.tilde
        configPrefix == String(getOption("save-prefix"))
        exact == flags.exact \/ Boolean(getOption("save-exact")) \/ configPrefix = Empty
        np == normalizePattern(pattern)
    IN  IF getExoticResolver(pattern) THEN pattern
        ELSE IF np.hasVersion /\ np.range # Empty
                /\ (satisfies(pkg.version, np.range) \/ getExoticResolver(np.range))
             THEN np.range
        ELSE getPrefix(tilde, exact, configPrefix) \o pkg.version

\* `${pkg.name}@${version}`, line 95
newPatternOf(pkg, version) == pkg.name \o At \o version

----------------------------------------------------------------------------
(* Values the inputs are drawn from *)

Registries == <<"npm", "yarn">>
Origins == <<"dependencies", "devDependencies", "optionalDependencies", "peerDependencies">>
OriginSet == {Origins[k] : k \in 1..Len(Origins)}
RegistrySet == {Registries[k] : k \in 1..Len(Registries)}

Package(name, version, registry, ref) ==
    [name |-> name, version |-> version, registry |-> registry, ref |-> ref]

SavePrefixes == {Undefined, Empty, Tilde, Caret, Greater}
SaveExacts == {Undefined, JSTrue, JSFalse}
Configs == {("save-prefix" :> p) @@ ("save-exact" :> e) : p \in SavePrefixes, e \in SaveExacts}

FlagsOf(dev, optional, peer, tilde, exact) ==
    [dev |-> dev, optional |-> optional, peer |-> peer, tilde |-> tilde, exact |-> exact]

\* the patterns getPatternVersion is applied to
GpvPatterns ==
    { NameA,                                  \* a
      NameA \o At,                            \* a@
      NameA \o At \o Caret \o V100,           \* a@^1.0.0
      NameA \o At \o Tilde \o V100,           \* a@~1.0.0
      NameA \o At \o V120,                    \* a@1.2.0
      NameA \o At \o Greater \o V100,         \* a@>1.0.0
      NameA \o At \o Latest,                  \* a@latest
      NameA \o At \o FileX,                   \* a@file:x
      FileX,                                  \* file:x
      FileX \o At \o V100,                    \* file:x@1.0.0
      NameScoped,                             \* @s/a
      NameScoped \o At \o Caret \o V100 }     \* @s/a@^1.0.0
GpvVersions == {V100, V105, V120, V200}
GpvNames == {NameA, NameScoped}

----------------------------------------------------------------------------
(* The variables a specification does not use keep one value *)

GpvIdle ==
    /\ gpvPattern = Empty /\ gpvPkg = Package(NameA, V100, "npm", TRUE)
    /\ gpvOut = Empty /\ gpvCanon = Empty /\ gpvOut2 = Empty /\ gpvPc = "idle"

AddIdle ==
    /\ patterns = <<>> /\ flagToOrigin = "dependencies"
    /\ addedPatterns = <<>> /\ preparedPatterns = <<>> /\ replaceLog = <<>>
    /\ userPkg = <<>> /\ rootPatternsToOrigin = <<>>
    /\ manifests = <<>> /\ disk = <<>> /\ idx = 0 /\ warnings = <<>>
    /\ saveCalls = 0 /\ run = 0 /\ firstRun = <<>> /\ pc = "idle"

BailIdle ==
    /\ lockfileCache = FALSE /\ integrityFileMissing = FALSE /\ integrityMatches = FALSE
    /\ haveLockfile = FALSE /\ hasWorkspaceLayout = FALSE /\ scriptsForce = FALSE
    /\ checkCalls = 0 /\ setForceCalls = 0 /\ bailoutResult = "none" /\ bpc = "idle"

----------------------------------------------------------------------------
(* getPatternVersion applied to one pattern and package, and applied again *)
(* to the canonical pattern built from its result                          *)

InitVersion ==
    /\ flags \in {FlagsOf(FALSE, FALSE, FALSE, t, e) : t \in BOOLEAN, e \in BOOLEAN}
    /\ config \in Configs
    /\ gpvPattern \in GpvPatterns
    /\ gpvPkg \in {Package(n, v, "npm", TRUE) : n \in GpvNames, v \in GpvVersions}
    /\ gpvOut = Empty /\ gpvCanon = Empty /\ gpvOut2 = Empty
    /\ gpvPc = "call"
    /\ args = <<>>
    /\ AddIdle /\ BailIdle

\* const version = this.getPatternVersion(pattern, pkg), lines 94 and 61-87
CallGetPatternVersion ==
    /\ gpvPc = "call"
    /\ gpvOut' = getPatternVersion(gpvPattern, gpvPkg)
    /\ gpvPc' = "returned"
    /\ UNCHANGED <<flags, config, gpvPattern, gpvPkg, gpvCanon, gpvOut2, addVars, bailVars>>

\* preparePatterns builds the canonical pattern (line 95) and savePackages
\* computes the version of that pattern again (line 179)
Recompute ==
    /\ gpvPc = "returned"
    /\ gpvCanon' = newPatternOf(gpvPkg, gpvOut)
    /\ gpvOut2' = getPatternVersion(newPatternOf(gpvPkg, gpvOut), gpvPkg)
    /\ gpvPc' = "recomputed"
    /\ UNCHANGED <<flags, config, gpvPattern, gpvPkg, gpvOut, addVars, bailVars>>

NextVersion == CallGetPatternVersion \/ Recompute

SpecVersion == InitVersion /\ [][NextVersion]_vars

----------------------------------------------------------------------------
(* The resolver view, the manifests and the pattern-origin index *)

Null == "null"

Range(f) == {f[x] : x \in DOMAIN f}

\* object[key] = value on a JavaScript object held as a function
Put(f, key, value) == [x \in DOMAIN f \cup {key} |-> IF x = key THEN value ELSE f[x]]

\* what getResolvedPattern returns for a pattern the resolver does not hold
NoPackage == [name |-> Empty, version |-> Empty, registry |-> "", ref |-> FALSE]

\* resolver.getResolvedPattern(pattern) on the index ix
getResolvedPattern(ix, pattern) == IF pattern \in DOMAIN ix THEN ix[pattern] ELSE NoPackage

\* resolver.replacePattern(old, new) on the index ix: the key old becomes new
replacePattern(ix, old, new) ==
    [x \in (DOMAIN ix \ {old}) \cup {new} |-> IF x = new THEN ix[old] ELSE ix[x]]

RECURSIVE dedupeFrom(_, _, _)
dedupeFrom(ix, pats, seen) ==
    IF pats = <<>> THEN <<>>
    ELSE LET info == getResolvedPattern(ix, Head(pats))
         IN  IF info \in seen THEN dedupeFrom(ix, Tail(pats), seen)
             ELSE <<Head(pats)>> \o dedupeFrom(ix, Tail(pats), seen \cup {info})

\* resolver.dedupePatterns(patterns): the first pattern of each resolved package
dedupePatterns(ix, pats) == dedupeFrom(ix, pats, {})

\* rootPatternsToOrigin[pattern] = origin, the keys kept in insertion order
SetOrigin(index, pattern, origin) ==
    IF \E k \in 1..Len(index) : index[k][1] = pattern
    THEN [k \in 1..Len(index) |-> IF index[k][1] = pattern THEN <<pattern, origin>> ELSE index[k]]
    ELSE Append(index, <<pattern, origin>>)

\* the names a section can hold, in the order their keys are visited
SectionNames == <<NameA, NameB>>

RECURSIVE pushDeps(_, _, _, _)
pushDeps(index, section, origin, k) ==
    IF k > Len(SectionNames) THEN index
    ELSE IF SectionNames[k] \in DOMAIN section
         THEN pushDeps(SetOrigin(index, SectionNames[k] \o At \o section[SectionNames[k]], origin),
                       section, origin, k + 1)
    ELSE pushDeps(index, section, origin, k + 1)

RECURSIVE indexFrom(_, _, _, _)
indexFrom(index, files, r, o) ==
    IF r > Len(Registries) THEN index
    ELSE IF o > Len(Origins) THEN indexFrom(index, files, r + 1, 1)
    ELSE IF Origins[o] \in DOMAIN files[Registries[r]]
         THEN indexFrom(pushDeps(index, files[Registries[r]][Origins[o]], Origins[o], 1),
                        files, r, o + 1)
    ELSE indexFrom(index, files, r, o + 1)

\* Install.fetchRequestFromCwd: every name@spec of every manifest file, with the
\* section it is recorded under
fetchRequestFromCwd(files) == indexFrom(<<>>, files, 1, 1)

\* config.getRootManifests(): the in-memory documents of the files
getRootManifests(files) == files

----------------------------------------------------------------------------
(* Add: constructor, preparePatterns, savePackages *)

\* the first truthy of dev, optional, peer; else dependencies (lines 27-34)
flagToOriginOf(fl) ==
    IF fl.dev THEN "devDependencies"
    ELSE IF fl.optional THEN "optionalDependencies"
    ELSE IF fl.peer THEN "peerDependencies"
    ELSE "dependencies"

\* one iteration of the loop of preparePatterns (lines 92-101) on the state st;
\* st.user notes, for the claims, the package the resolver held for the
\* pattern before preparePatterns (st.ix0)
prepareOne(st, pattern) ==
    LET pkg == getResolvedPattern(st.ix, pattern)
    IN  IF pkg = NoPackage THEN [st EXCEPT !.ok = FALSE]
        ELSE LET newPattern == newPatternOf(pkg, getPatternVersion(pattern, pkg))
             IN  [ix |-> IF newPattern = pattern THEN st.ix
                         ELSE replacePattern(st.ix, pattern, newPattern),
                  ix0 |-> st.ix0,
                  prepared |-> Append(st.prepared, newPattern),
                  added |-> Append(st.added, newPattern),
                  log |-> IF newPattern = pattern THEN st.log
                          ELSE Append(st.log, <<pattern, newPattern>>),
                  user |-> Append(st.user, [pattern |-> pattern,
                                            pkg |-> getResolvedPattern(st.ix0, pattern)]),
                  ok |-> TRUE]

RECURSIVE prepareLoop(_, _)
prepareLoop(st, pats) ==
    IF pats = <<>> \/ ~st.ok THEN st
    ELSE prepareLoop(prepareOne(st, Head(pats)), Tail(pats))

\* the top-level patterns Install.init passes to preparePatterns
RawPatterns == <<>>

\* Add.preparePatterns(patterns)
PreparePatterns ==
    /\ pc = "init"
    /\ LET st == prepareLoop([ix |-> patterns, ix0 |-> patterns, prepared |-> RawPatterns, added |-> addedPatterns,
                              log |-> replaceLog, user |-> userPkg, ok |-> TRUE],
                             dedupePatterns(patterns, args))
       IN  /\ patterns' = st.ix
           /\ preparedPatterns' = st.prepared
           /\ addedPatterns' = st.added
           /\ replaceLog' = st.log
           /\ userPkg' = st.user
           /\ pc' = IF st.ok THEN "prepared" ELSE "aborted"
    /\ UNCHANGED <<flags, config, gpvVars, bailVars, args, flagToOrigin, rootPatternsToOrigin,
                   manifests, disk, idx, warnings, saveCalls, run, firstRun>>

\* savePackages up to its loop (lines 168-173)
SaveFetch ==
    /\ pc = "prepared"
    /\ rootPatternsToOrigin' = fetchRequestFromCwd(disk)
    /\ manifests' = getRootManifests(disk)
    /\ idx' = 1
    /\ run' = 1
    /\ pc' = "merge"
    /\ UNCHANGED <<flags, config, gpvVars, bailVars, args, patterns, flagToOrigin, addedPatterns,
                   preparedPatterns, replaceLog, userPkg, disk, warnings, saveCalls, firstRun>>

\* the reduce of lines 183-188: the origin of the last key that starts with name@
depTypeOf(index, name) ==
    LET hits == {k \in 1..Len(index) : StartsWith(index[k][1], name \o At)}
    IN  IF hits = {} THEN Null
        ELSE index[CHOOSE k \in hits : \A j \in hits : j <= k][2]

\* depType || this.flagToOrigin (line 191)
targetOf(depType, origin) == IF depType = Null THEN origin ELSE depType

\* the entry written with += instead of =
writeEntry_append(object, target, name, version) ==
    LET section == IF target \in DOMAIN object THEN object[target] ELSE <<>>
    IN  Put(object, target,
            Put(section, name, IF name \in DOMAIN section THEN section[name] \o version ELSE version))

\* object[target] = object[target] || {}; object[target][name] = version
writeEntry(object, target, name, version) ==
    Put(object, target,
        Put(IF target \in DOMAIN object THEN object[target] ELSE <<>>, name, version))

\* the invariants of lines 178 and 181 hold for the pattern the loop is at
MergeInvariantsHold ==
    /\ getResolvedPattern(patterns, addedPatterns[idx]) # NoPackage
    /\ getResolvedPattern(patterns, addedPatterns[idx]).ref

\* one iteration of the loop of savePackages (lines 176-202)
MergeStep ==
    /\ pc = "merge" /\ idx <= Len(addedPatterns)
    /\ MergeInvariantsHold
    /\ LET pattern == addedPatterns[idx]
           pkg == getResolvedPattern(patterns, pattern)
           version == getPatternVersion(pattern, pkg)
           depType == depTypeOf(rootPatternsToOrigin, pkg.name)
           target == targetOf(depType, flagToOrigin)
       IN  /\ manifests' = [manifests EXCEPT ![pkg.registry] = writeEntry(@, target, pkg.name, version)]
           /\ warnings' = IF target # flagToOrigin
                          THEN Append(warnings, <<pkg.name, depType, flagToOrigin>>)
                          ELSE warnings
    /\ idx' = idx + 1
    /\ UNCHANGED <<flags, config, gpvVars, bailVars, args, patterns, flagToOrigin, addedPatterns,
                   preparedPatterns, replaceLog, userPkg, rootPatternsToOrigin, disk, saveCalls,
                   run, firstRun, pc>>

\* invariant(pkg, ...) or invariant(ref, ...) throws: savePackages ends there
MergeInvariantFails ==
    /\ pc = "merge" /\ idx <= Len(addedPatterns)
    /\ ~MergeInvariantsHold
    /\ pc' = "aborted"
    /\ UNCHANGED <<flags, config, gpvVars, bailVars, args, patterns, flagToOrigin, addedPatterns,
                   preparedPatterns, replaceLog, userPkg, rootPatternsToOrigin, manifests, disk,
                   idx, warnings, saveCalls, run, firstRun>>

\* saveRootManifests called from inside the loop
Persist_insideLoop ==
    /\ pc = "merge" /\ idx > 1
    /\ disk' = manifests
    /\ saveCalls' = saveCalls + 1
    /\ pc' = IF idx > Len(addedPatterns) THEN "done" ELSE pc
    /\ UNCHANGED <<flags, config, gpvVars, bailVars, args, patterns, flagToOrigin, addedPatterns,
                   preparedPatterns, replaceLog, userPkg, rootPatternsToOrigin, manifests, idx,
                   warnings, run, firstRun>>

\* await this.config.saveRootManifests(manifests), line 204
Persist ==
    /\ pc = "merge" /\ idx > Len(addedPatterns)
    /\ disk' = manifests
    /\ saveCalls' = saveCalls + 1
    /\ pc' = "done"
    /\ UNCHANGED <<flags, config, gpvVars, bailVars, args, patterns, flagToOrigin, addedPatterns,
                   preparedPatterns, replaceLog, userPkg, rootPatternsToOrigin, manifests, idx,
                   warnings, run, firstRun>>

\* the loop of lines 176-202 entered once more, with the same added patterns,
\* resolver view and pattern-origin index
MaxRuns == 2
MergeAgain ==
    /\ pc = "merge" /\ idx > Len(addedPatterns)
    /\ run < MaxRuns
    /\ firstRun' = IF run = 1 THEN manifests ELSE firstRun
    /\ run' = run + 1
    /\ idx' = 1
    /\ UNCHANGED <<flags, config, gpvVars, bailVars, args, patterns, flagToOrigin, addedPatterns,
                   preparedPatterns, replaceLog, userPkg, rootPatternsToOrigin, manifests, disk,
                   warnings, saveCalls, pc>>

----------------------------------------------------------------------------
(* Add.bailout *)

\* match.integrityFileMissing || haveLockfile
forcesScripts_either(missing, lockfileOnDisk) == missing \/ lockfileOnDisk

\* match.integrityFileMissing && haveLockfile (line 113)
forcesScripts(missing, lockfileOnDisk) == missing /\ lockfileOnDisk

\* if (!lockfileCache) return false (lines 107-110)
BailoutNoCache ==
    /\ bpc = "call" /\ ~lockfileCache
    /\ bailoutResult' = "false"
    /\ bpc' = "returned"
    /\ UNCHANGED <<flags, config, gpvVars, addVars, lockfileCache, integrityFileMissing,
                   integrityMatches, haveLockfile, hasWorkspaceLayout, scriptsForce, checkCalls,
                   setForceCalls>>

\* await this.integrityChecker.check(...): any match result (line 111)
BailoutCheck ==
    /\ bpc = "call" /\ lockfileCache
    /\ checkCalls' = checkCalls + 1
    /\ integrityFileMissing' \in BOOLEAN
    /\ integrityMatches' \in BOOLEAN
    /\ bpc' = "checked"
    /\ UNCHANGED <<flags, config, gpvVars, addVars, lockfileCache, haveLockfile,
                   hasWorkspaceLayout, scriptsForce, setForceCalls, bailoutResult>>

\* await fs.exists(<lockfile>): the file is there or not (line 112)
BailoutExists ==
    /\ bpc = "checked"
    /\ haveLockfile' \in BOOLEAN
    /\ bpc' = "exists"
    /\ UNCHANGED <<flags, config, gpvVars, addVars, lockfileCache, integrityFileMissing,
                   integrityMatches, hasWorkspaceLayout, scriptsForce, checkCalls, setForceCalls,
                   bailoutResult>>

\* lines 113-117
BailoutReturn ==
    /\ bpc = "exists"
    /\ scriptsForce' = IF forcesScripts(integrityFileMissing, haveLockfile) THEN TRUE ELSE scriptsForce
    /\ setForceCalls' = IF forcesScripts(integrityFileMissing, haveLockfile)
                        THEN setForceCalls + 1 ELSE setForceCalls
    /\ bailoutResult' = "false"
    /\ bpc' = "returned"
    /\ UNCHANGED <<flags, config, gpvVars, addVars, lockfileCache, integrityFileMissing,
                   integrityMatches, haveLockfile, hasWorkspaceLayout, checkCalls>>

----------------------------------------------------------------------------
(* One add invocation *)

MaxArgs == 2
MaxExisting == 2

\* the patterns the user types
ArgPatterns ==
    { NameA,                                  \* a
      NameA \o At \o Caret \o V100,           \* a@^1.0.0
      NameB }                                 \* b

\* the packages a pattern can resolve to
Candidates(pattern) ==
    IF normalizePattern(pattern).name = NameA
    THEN {Package(NameA, V100, "npm", TRUE), Package(NameA, V120, "yarn", TRUE)}
    ELSE {Package(NameB, V100, "npm", TRUE), Package(NameB, V100, "npm", FALSE)}

\* the argument lists: no pattern twice
ArgLists ==
    UNION {{s \in [1..n -> ArgPatterns] : \A j, k \in 1..n : j # k => s[j] # s[k]} : n \in 1..MaxArgs}

\* a manifest entry on disk before the add: package a under origin o of registry r
Cells == RegistrySet \X OriginSet
ExistingSpec(r) == IF r = "npm" THEN Caret \o V100 ELSE Tilde \o V100

FilesOf(cells) ==
    [r \in RegistrySet |->
        [o \in {c[2] : c \in {d \in cells : d[1] = r}} |-> (NameA :> ExistingSpec(r))]]

MainFlags ==
    {FlagsOf(d, o, p, FALSE, FALSE) : d \in BOOLEAN, o \in BOOLEAN, p \in BOOLEAN}
MainConfig == ("save-prefix" :> Caret) @@ ("save-exact" :> Undefined)

Init ==
    /\ flags \in MainFlags
    /\ config = MainConfig
    /\ args \in ArgLists
    /\ patterns \in {ix \in [Range(args) -> UNION {Candidates(q) : q \in ArgPatterns}] :
                        \A q \in DOMAIN ix : ix[q] \in Candidates(q)}
    /\ flagToOrigin = flagToOriginOf(flags)
    /\ addedPatterns = <<>> /\ preparedPatterns = <<>> /\ replaceLog = <<>> /\ userPkg = <<>>
    /\ rootPatternsToOrigin = <<>>
    /\ manifests = <<>>
    /\ disk \in {FilesOf(cells) : cells \in {c \in SUBSET Cells : Cardinality(c) <= MaxExisting}}
    /\ idx = 0 /\ warnings = <<>> /\ saveCalls = 0 /\ run = 0 /\ firstRun = <<>>
    /\ pc = "init"
    /\ GpvIdle /\ BailIdle

Next == PreparePatterns \/ SaveFetch \/ MergeStep \/ MergeInvariantFails \/ Persist

Spec == Init /\ [][Next]_vars

NextTwice == Next \/ MergeAgain

SpecTwice == Init /\ [][NextTwice]_vars

----------------------------------------------------------------------------
(* Properties of preparePatterns and savePackages *)

\* the loop of savePackages has handled every added pattern, for the first time
Merged == pc = "merge" /\ idx > Len(addedPatterns) /\ run = 1

AddedPkg(k) == getResolvedPattern(patterns, addedPatterns[k])

\* the sections of document doc that hold name
SectionsOf(doc, name) == {o \in DOMAIN doc : name \in DOMAIN doc[o]}

Holds(docs, r, o, name) == o \in DOMAIN docs[r] /\ name \in DOMAIN docs[r][o]

\* the origins the index records for a pattern that begins with name@
RecordedOrigins(name) ==
    {rootPatternsToOrigin[j][2] :
        j \in {i \in 1..Len(rootPatternsToOrigin) : StartsWith(rootPatternsToOrigin[i][1], name \o At)}}

\* the origin of the last index key that begins with name@, Null without one
LastRecorded(name) ==
    LET hits == {i \in 1..Len(rootPatternsToOrigin) : StartsWith(rootPatternsToOrigin[i][1], name \o At)}
    IN  IF hits = {} THEN Null
        ELSE rootPatternsToOrigin[CHOOSE i \in hits : \A j \in hits : j <= i][2]

WarningsFor(name) == {w \in 1..Len(warnings) : warnings[w][1] = name}
AddedAs(name) == {k \in 1..Len(addedPatterns) : AddedPkg(k).name = name}

\* C1: if the index records a pattern beginning with name@ under an origin O
\* other than the origin F of the flags, savePackages writes name under O,
\* creates no entry for name under F, and warns exactly once for the package.
C1_ConflictPreserved ==
    Merged =>
        \A k \in 1..Len(addedPatterns) : \A O \in RecordedOrigins(AddedPkg(k).name) :
            O # flagToOrigin =>
                /\ Holds(manifests, AddedPkg(k).registry, O, AddedPkg(k).name)
                /\ \A r \in RegistrySet :
                      Holds(manifests, r, flagToOrigin, AddedPkg(k).name)
                          => Holds(disk, r, flagToOrigin, AddedPkg(k).name)
                /\ Cardinality(WarningsFor(AddedPkg(k).name)) = 1

\* C1, what the code guarantees: the origin O that counts is the one of the last index key
\* beginning with name@; then every added pattern of that name is written
\* under O with its version, none is created under F, and there is one warning
\* per added pattern of that name, each naming O and F.
C1_LastRecordedWins ==
    Merged =>
        \A k \in 1..Len(addedPatterns) :
            LET name == AddedPkg(k).name
                O == LastRecorded(name)
            IN  (O # Null /\ O # flagToOrigin) =>
                    /\ Holds(manifests, AddedPkg(k).registry, O, name)
                    /\ (\A j \in AddedAs(name) : j > k => AddedPkg(j).registry # AddedPkg(k).registry)
                          => manifests[AddedPkg(k).registry][O][name]
                                = getPatternVersion(addedPatterns[k], AddedPkg(k))
                    /\ \A r \in RegistrySet :
                          Holds(manifests, r, flagToOrigin, name) => Holds(disk, r, flagToOrigin, name)
                    /\ Cardinality(WarningsFor(name)) = Cardinality(AddedAs(name))
                    /\ \A w \in WarningsFor(name) : warnings[w] = <<name, O, flagToOrigin>>

C1_Witness ==
    /\ Merged /\ Len(addedPatterns) > 0
    /\ flagToOrigin = "dependencies"
    /\ LastRecorded(NameA) = "devDependencies"
    /\ Holds(manifests, "npm", "devDependencies", NameA)
    /\ manifests["npm"]["devDependencies"][NameA] = Caret \o V100
    /\ ~Holds(manifests, "npm", "dependencies", NameA)
    /\ warnings = <<<<NameA, "devDependencies", "dependencies">>>>

\* every package name is in at most one section of each document
SingleSection(docs) ==
    \A r \in DOMAIN docs : \A name \in {NameA, NameB} : Cardinality(SectionsOf(docs[r], name)) <= 1

\* every package name is in sections of one origin only, over all documents
SingleOrigin(docs) ==
    \A name \in {NameA, NameB} :
        Cardinality(UNION {SectionsOf(docs[r], name) : r \in DOMAIN docs}) <= 1

\* C2: from manifest files that hold every name in at most one section each,
\* the documents savePackages merges into hold every name in at most one
\* section each.
C2_SingleSection ==
    (pc = "merge" /\ SingleSection(disk)) => SingleSection(manifests)

\* C2 with every name under one origin over all the files before the add
C2_SingleOrigin ==
    (pc = "merge" /\ SingleOrigin(disk)) => SingleSection(manifests)

\* C8: saveRootManifests is called at most once, only after the loop has
\* handled every added pattern, with the documents as the loop left them; an
\* invocation an invariant ended has not called it.
C8_PersistAfterMutate ==
    /\ saveCalls <= 1
    /\ saveCalls = 1 => (pc = "done" /\ idx > Len(addedPatterns) /\ disk = manifests)
    /\ pc = "aborted" => saveCalls = 0

\* C8, the files: they change only in the step that saves, after the loop
C8_FilesChangeOnlyAtSave ==
    [][disk' # disk => (pc = "merge" /\ idx > Len(addedPatterns) /\ pc' = "done")]_vars

C8_Witness ==
    /\ pc = "aborted" /\ idx > 1 /\ manifests # disk /\ saveCalls = 0

C8_WitnessSaved ==
    /\ pc = "done" /\ saveCalls = 1 /\ Len(addedPatterns) > 1

\* the calls of replacePattern the added patterns ask for
ExpectedReplacements ==
    LET pairs == [k \in 1..Len(addedPatterns) |-> <<userPkg[k].pattern, addedPatterns[k]>>]
        Differs(pr) == pr[1] # pr[2]
    IN  SelectSeq(pairs, Differs)

\* C10: after preparePatterns every added pattern is name@versionSpec and the
\* resolver returns for it the package its user pattern resolved to;
\* replacePattern was called for exactly the patterns whose canonical form
\* differs; so savePackages never misses the package of an added pattern.
C10_AddedReachable ==
    (pc \in {"prepared", "merge", "done"}) =>
        /\ Len(userPkg) = Len(addedPatterns)
        /\ \A k \in 1..Len(addedPatterns) :
              /\ StartsWith(addedPatterns[k], userPkg[k].pkg.name \o At)
              /\ Len(addedPatterns[k]) > Len(userPkg[k].pkg.name \o At)
              /\ AddedPkg(k) = userPkg[k].pkg
        /\ replaceLog = ExpectedReplacements

\* C10, what the code guarantees: the resolver returns for an added pattern the package that
\* a user pattern with this canonical form resolved to, which is the pattern's
\* own package when no other added pattern has the same canonical form.
C10_AddedResolves ==
    (pc \in {"prepared", "merge", "done"}) =>
        /\ Len(userPkg) = Len(addedPatterns)
        /\ \A k \in 1..Len(addedPatterns) :
              /\ StartsWith(addedPatterns[k], userPkg[k].pkg.name \o At)
              /\ Len(addedPatterns[k]) > Len(userPkg[k].pkg.name \o At)
              /\ \E j \in 1..Len(addedPatterns) :
                    addedPatterns[j] = addedPatterns[k] /\ AddedPkg(k) = userPkg[j].pkg
        /\ replaceLog = ExpectedReplacements

C10_Witness ==
    /\ pc = "prepared" /\ Len(addedPatterns) > 1
    /\ addedPatterns[1] # addedPatterns[2]
    /\ Len(replaceLog) = 1
    /\ AddedPkg(1) = userPkg[1].pkg /\ AddedPkg(2) = userPkg[2].pkg
    /\ AddedPkg(1) # AddedPkg(2)

\* C6: a second run of the merge loop leaves the documents as the first run
\* left them.
C6_MergeIdempotent ==
    (pc = "merge" /\ idx > Len(addedPatterns) /\ run > 1) => manifests = firstRun

C6_Witness ==
    /\ pc = "merge" /\ idx > Len(addedPatterns) /\ run > 1
    /\ Len(addedPatterns) > 1 /\ manifests = firstRun /\ manifests # disk
    /\ warnings # <<>>

----------------------------------------------------------------------------
(* One call of bailout(patterns, workspaceLayout) *)

InitBailout ==
    /\ flags = FlagsOf(FALSE, FALSE, FALSE, FALSE, FALSE)
    /\ config = MainConfig
    /\ args \in ArgLists
    /\ lockfileCache \in BOOLEAN
    /\ hasWorkspaceLayout \in BOOLEAN
    /\ scriptsForce \in BOOLEAN
    /\ integrityFileMissing = FALSE /\ integrityMatches = FALSE /\ haveLockfile = FALSE
    /\ checkCalls = 0 /\ setForceCalls = 0 /\ bailoutResult = "none" /\ bpc = "call"
    /\ GpvIdle /\ AddIdle

NextBailout == BailoutNoCache \/ BailoutCheck \/ BailoutExists \/ BailoutReturn

SpecBailout == InitBailout /\ [][NextBailout]_vars

\* C7: bailout returns false for every input; scripts.setForce(true) is called
\* exactly when there is a lockfile cache, the check reports
\* integrityFileMissing and the lockfile is on disk; without a lockfile cache
\* the integrity checker is not consulted.
C7_BailoutGate ==
    /\ bailoutResult # "true"
    /\ setForceCalls <= 1
    /\ bpc = "returned" =>
          /\ bailoutResult = "false"
          /\ setForceCalls = 1 <=> (lockfileCache /\ integrityFileMissing /\ haveLockfile)
          /\ setForceCalls = 1 => scriptsForce
          /\ checkCalls = IF lockfileCache THEN 1 ELSE 0
    /\ bpc # "returned" => (bailoutResult = "none" /\ setForceCalls = 0)

C7_Witness ==
    /\ bpc = "returned" /\ lockfileCache /\ integrityFileMissing /\ haveLockfile
    /\ setForceCalls = 1 /\ scriptsForce /\ bailoutResult = "false"

C7_WitnessNoCache ==
    /\ bpc = "returned" /\ ~lockfileCache /\ checkCalls = 0 /\ bailoutResult = "false"

----------------------------------------------------------------------------
(* Properties of getPatternVersion *)

GpvRangeless == ~getExoticResolver(gpvPattern) /\ ~normalizePattern(gpvPattern).hasVersion
GpvRanged == ~getExoticResolver(gpvPattern) /\ normalizePattern(gpvPattern).hasVersion
GpvEchoes ==
    \/ satisfies(gpvPkg.version, normalizePattern(gpvPattern).range)
    \/ getExoticResolver(normalizePattern(gpvPattern).range)

\* the prefix the prefix policy states, with "^" when no save-prefix is configured
StatedPrefix ==
    IF flags.tilde THEN Tilde
    ELSE IF flags.exact \/ config["save-exact"] = JSTrue \/ config["save-prefix"] = Empty
         THEN Empty
    ELSE IF config["save-prefix"] # Undefined THEN config["save-prefix"]
    ELSE Caret

\* C3: for a pattern that is not exotic and carries no range the result is
\* prefix + version, the prefix being "~" under --tilde, else empty under
\* --exact, save-exact or an empty save-prefix, else the configured save-prefix,
\* else "^" when no save-prefix is configured.
C3_PrefixPolicy ==
    (gpvPc # "call" /\ GpvRangeless) => gpvOut = StatedPrefix \o gpvPkg.version

\* C3, the part the code keeps: the same with a save-prefix configured.
C3_PrefixPolicyConfigured ==
    (gpvPc # "call" /\ GpvRangeless /\ config["save-prefix"] # Undefined)
        => gpvOut = StatedPrefix \o gpvPkg.version

\* the prefixes a synthesized version can carry under the current options
SynthPrefixes == {Tilde, Empty, Caret, String(config["save-prefix"])}

C5_ExoticPassthrough ==
    (gpvPc # "call" /\ getExoticResolver(gpvPattern)) => gpvOut = gpvPattern

C5_Witness ==
    /\ gpvPc = "returned" /\ getExoticResolver(gpvPattern)
    /\ normalizePattern(gpvPattern).hasVersion
    /\ satisfies(gpvPkg.version, normalizePattern(gpvPattern).range)
    /\ flags.tilde /\ gpvOut = gpvPattern

\* C9: the version computed again from the canonical pattern name@version is
\* the version the canonical pattern was built from.
C9_RecomputeStable ==
    gpvPc = "recomputed" => gpvOut2 = gpvOut

C9_Witness ==
    /\ gpvPc = "recomputed" /\ getExoticResolver(gpvPattern)
    /\ gpvCanon = gpvPkg.name \o At \o gpvPattern /\ gpvOut2 = gpvPattern

C9_WitnessSynthesized ==
    /\ gpvPc = "recomputed" /\ GpvRangeless
    /\ ~satisfies(gpvPkg.version, gpvOut) /\ gpvOut2 = gpvOut

====
